---- MODULE Spec2Model ----
(***************************************************************************)
(* The api_to_s3_etl pipeline (dags/api_to_s3/api_to_s3_etl_dag.py) run by *)
(* the scheduler it is declared for, and clean_dataset                     *)
(* (dags/utils/transformations.py) on bounded record frames.               *)
(*                                                                         *)
(* Spec      : the scheduler's runs of the DAG (ticks, runs, task          *)
(*             instances, the sensor's polls, retries, the S3 bucket).     *)
(* SpecClean : clean_dataset applied to every frame of at most MaxRecords  *)
(*             rows.                                                       *)
(***************************************************************************)
EXTENDS Integers, Sequences, FiniteSets, TLC

VARIABLES
    now,      \* index of the latest schedule tick that has arrived (0: none yet)
    runs,     \* logical date -> [state, cause, tick]: every DagRun created so far
    ti,       \* logical date -> task-instance table, of the active runs and of the
              \* runs finished since the last run was created
    bucket,   \* S3 key -> object stored under it
    df,       \* the DataFrame object the caller passed to clean_dataset
    input,    \* the rows of that frame when the call was made
    result,   \* what clean_dataset returned
    cpc       \* position of the clean_dataset call: "idle", "call" or "done"

vars == <<now, runs, ti, bucket, df, input, result, cpc>>
pipeVars == <<now, runs, ti, bucket>>
cleanVars == <<df, input, result, cpc>>

(***************************************************************************)
(* Bounds of the model.                                                    *)
(***************************************************************************)
MaxTick == 2        \* schedule ticks that arrive
MaxFaults == 6      \* failed attempts the environment causes within one run
MaxLag == 1         \* seconds a re-submitted poke may start late
MaxRecords == 2     \* rows of a frame handed to clean_dataset

(***************************************************************************)
(* The DAG: tasks, edges, policies.                                        *)
(***************************************************************************)
Sensor == "check_api_availability"
Extract == "extract_data"
Clean == "clean_data"
Enrich == "enrich_data"
UploadDaily == "upload_daily_data"
UploadHourly == "upload_hourly_data"
LogMetrics == "log_etl_metrics"

Tasks == {Sensor, Extract, Clean, Enrich, UploadDaily, UploadHourly, LogMetrics}

TransformGroup == {Clean, Enrich}
LoadGroup == {UploadDaily, UploadHourly, LogMetrics}
Uploads == {UploadDaily, UploadHourly}

\* The edges with upload_hourly_data chained after upload_daily_data.
UpstreamSerialUploads(t) ==
    CASE t = Sensor -> {}
      [] t = Extract -> {Sensor}
      [] t = Clean -> {Extract}
      [] t = Enrich -> {Clean}
      [] t = UploadDaily -> {Enrich}
      [] t = UploadHourly -> {Clean, UploadDaily}
      [] t = LogMetrics -> {UploadDaily, UploadHourly, Clean}

\* The edges the DAG object holds.  An edge comes from an XComArg passed as an
\* argument (extract_data.output, cleaned_data[...], enriched_daily_data, the two
\* s3 paths) or from `check_api_availability >> extract_data`.  The operands
\* transform_result (a dict of XComArgs, since the group function returns one)
\* and load_data of the last line are not tasks, and the dict binds no edge.
Upstream(t) ==
    CASE t = Sensor -> {}
      [] t = Extract -> {Sensor}
      [] t = Clean -> {Extract}
      [] t = Enrich -> {Clean}
      [] t = UploadDaily -> {Enrich}
      [] t = UploadHourly -> {Clean}
      [] t = LogMetrics -> {UploadDaily, UploadHourly, Clean}

\* Tasks with no downstream task: they decide the run's state.
Leaves == {t \in Tasks : \A s \in Tasks : t \notin Upstream(s)}

DefaultRetries == 3
DefaultRetryDelay == 5
MaxRetryDelay == 60
RetryExponentialBackoff == TRUE

\* retries of each task: its own argument, else default_args.  extract_data's
\* retry_limit is not the retries argument.
Retries(t) ==
    CASE t = Clean -> 3
      [] t = Enrich -> 2
      [] t \in Uploads -> 5
      [] t = LogMetrics -> 3
      [] OTHER -> DefaultRetries

\* retry_delay of each task, in minutes.
RetryDelay(t) ==
    CASE t = Extract -> 2
      [] t = Clean -> 2
      [] t \in Uploads -> 2
      [] OTHER -> DefaultRetryDelay

PokeInterval == 60
SensorTimeout == 600
SensorModePoke == "poke"
SensorMode == "reschedule"
ExpectedStatus == 200
HealthStatuses == {200, 204, 404}

MaxActiveRunsTwo == 1 + 1
MaxActiveRuns == 1
Catchup == FALSE

RECURSIVE Pow2(_)
Pow2(n) == IF n = 0 THEN 1 ELSE 2 * Pow2(n - 1)

Min(a, b) == IF a <= b THEN a ELSE b

SetMax(S) == CHOOSE x \in S : \A y \in S : y <= x

(***************************************************************************)
(* Task instances of one run.                                              *)
(***************************************************************************)
Finished == {"success", "failed", "upstream_failed"}

\* The table of a run at its creation: every task instance has no state yet.
NewTable ==
    [st |-> [t \in Tasks |-> "none"],
     tries |-> [t \in Tasks |-> 0],
     delay |-> [t \in Tasks |-> 0],
     cause |-> [t \in Tasks |-> "none"],
     elapsed |-> 0,
     waiting |-> FALSE,
     faults |-> 0]

ActiveRuns == {d \in DOMAIN runs : runs[d].state = "running"}

\* Task instances that hold a worker slot.
OccupiedSlots(d) == {t \in Tasks : ti[d].st[t] = "running"}

\* The default trigger rule (all_success): every upstream task has succeeded.
Runnable(d, t) ==
    /\ ti[d].st[t] = "none"
    /\ \A u \in Upstream(t) : ti[d].st[u] = "success"

\* The retry test one attempt short.
EligibleToRetryOffByOne(t, tries) == tries < Retries(t)

\* A failed attempt number `tries` is retried while tries <= retries.
EligibleToRetry(t, tries) == tries <= Retries(t)

\* The delays, in minutes, the scheduler may wait after failed attempt number
\* `tries`: with retry_exponential_backoff, retry_delay * 2^(tries-1) plus a
\* hash-derived part below that amount, capped by max_retry_delay.  Of the
\* hash-derived part the model takes the least and the greatest value.
RetryDelays(t, tries) ==
    IF RetryExponentialBackoff
    THEN LET minBackoff == RetryDelay(t) * Pow2(tries - 1)
         IN  {Min(minBackoff + j, MaxRetryDelay) : j \in {0, minBackoff - 1}}
    ELSE {RetryDelay(t)}

\* response_check of the sensor.
ResponseCheck(status) == status = ExpectedStatus

\* The timeout handled as any other failed attempt.
OnSensorTimeoutRetried(tab) ==
    IF tab.tries[Sensor] <= Retries(Sensor)
    THEN [tab EXCEPT !.st[Sensor] = "up_for_retry"]
    ELSE [tab EXCEPT !.st[Sensor] = "failed", !.cause[Sensor] = "sensor_timeout"]

\* What the sensor does when its run duration exceeds the timeout: the timeout
\* error fails the task instance whatever its retries are.
OnSensorTimeout(tab) ==
    [tab EXCEPT !.st[Sensor] = "failed", !.cause[Sensor] = "sensor_timeout"]

\* What the sensor does after an unsuccessful poke within the timeout: in
\* reschedule mode the attempt ends and the slot is released until the next poke.
OnPokeFalse(tab) ==
    IF SensorMode = "reschedule"
    THEN [tab EXCEPT !.st[Sensor] = "up_for_reschedule", !.waiting = TRUE]
    ELSE [tab EXCEPT !.waiting = TRUE]

\* The rendering of a logical date as a ds string.
DsStrings == <<"2025-05-01", "2025-05-02", "2025-05-03", "2025-05-04", "2025-05-05">>
Ds(d) == DsStrings[d]

\* execution_date inside the upload callables: a string literal of the function
\* body; nothing renders it.
ExecutionDate(d) == "{{ ds }}"

Kind(t) == IF t = UploadDaily THEN "daily" ELSE "hourly"

MetricsFile(t) ==
    IF t = UploadDaily THEN "daily_metrics.json" ELSE "hourly_metrics.json"

\* s3_path of an upload task in the run of logical date d.
S3Path(t, d) ==
    [prefix |-> Kind(t), date |-> ExecutionDate(d), name |-> MetricsFile(t)]

\* load_file(..., replace=True): the object under the key is replaced.
LoadFile(b, key, obj) ==
    [k \in DOMAIN b \cup {key} |-> IF k = key THEN obj ELSE b[k]]

\* The payload an upload task of run d is handed.
Payload(t, d) == [kind |-> Kind(t), run |-> d]

(***************************************************************************)
(* Run controller.                                                         *)
(***************************************************************************)
LatestRun == IF DOMAIN runs = {} THEN 0 ELSE SetMax(DOMAIN runs)

\* The logical date of the next run: with catchup off only the latest tick.
NextLogicalDate == IF Catchup THEN LatestRun + 1 ELSE now

Tick ==
    /\ now < MaxTick
    /\ now' = now + 1
    /\ UNCHANGED <<runs, ti, bucket>>

CreateRun ==
    /\ Cardinality(ActiveRuns) < MaxActiveRuns
    /\ now > LatestRun
    /\ LET d == NextLogicalDate
       IN  /\ runs' = [x \in DOMAIN runs \cup {d} |->
                          IF x = d THEN [state |-> "running", cause |-> "none", tick |-> now]
                          ELSE runs[x]]
           /\ ti' = [x \in ActiveRuns \cup {d} |-> IF x = d THEN NewTable ELSE ti[x]]
    /\ UNCHANGED <<now, bucket>>

(***************************************************************************)
(* Task instance steps.                                                    *)
(***************************************************************************)
StartTask(d, t) ==
    /\ d \in ActiveRuns
    /\ Runnable(d, t)
    /\ ti' = [ti EXCEPT ![d].st[t] = "running", ![d].tries[t] = 1]
    /\ UNCHANGED <<now, runs, bucket>>

SensorPoke(d, status) ==
    /\ d \in ActiveRuns
    /\ ti[d].st[Sensor] = "running"
    /\ ~ti[d].waiting
    /\ ti' = [ti EXCEPT ![d] =
                IF ResponseCheck(status)
                THEN [@ EXCEPT !.st[Sensor] = "success", !.elapsed = 0]
                ELSE IF @.elapsed > SensorTimeout
                     THEN OnSensorTimeout(@)
                     ELSE OnPokeFalse(@)]
    /\ UNCHANGED <<now, runs, bucket>>

SensorNextPoke(d, lag) ==
    /\ d \in ActiveRuns
    /\ ti[d].waiting
    /\ ti' = [ti EXCEPT ![d].st[Sensor] = "running",
                        ![d].waiting = FALSE,
                        ![d].elapsed = @ + PokeInterval + lag]
    /\ UNCHANGED <<now, runs, bucket>>

TaskSucceed(d, t) ==
    /\ d \in ActiveRuns
    /\ t # Sensor
    /\ ti[d].st[t] = "running"
    /\ ti' = [ti EXCEPT ![d].st[t] = "success"]
    /\ bucket' = IF t \in Uploads
                 THEN LoadFile(bucket, S3Path(t, d), Payload(t, d))
                 ELSE bucket
    /\ UNCHANGED <<now, runs>>

\* An attempt of a task other than the sensor that raises or exceeds its
\* execution_timeout; an upload may do so before or after load_file.  (The
\* sensor's attempts are the polls of SensorPoke, whose responses all reach
\* response_check.)
TaskFail(d, t, wrote) ==
    /\ d \in ActiveRuns
    /\ t # Sensor
    /\ ti[d].st[t] = "running"
    /\ ti[d].faults < MaxFaults
    /\ wrote => t \in Uploads
    /\ bucket' = IF wrote
                 THEN LoadFile(bucket, S3Path(t, d), Payload(t, d))
                 ELSE bucket
    /\ IF EligibleToRetry(t, ti[d].tries[t])
       THEN \E dl \in RetryDelays(t, ti[d].tries[t]) :
               ti' = [ti EXCEPT ![d].st[t] = "up_for_retry",
                                ![d].delay[t] = dl,
                                ![d].faults = @ + 1]
       ELSE ti' = [ti EXCEPT ![d].st[t] = "failed",
                             ![d].cause[t] = "error",
                             ![d].faults = @ + 1]
    /\ UNCHANGED <<now, runs>>

RetryTask(d, t) ==
    /\ d \in ActiveRuns
    /\ ti[d].st[t] = "up_for_retry"
    /\ ti' = [ti EXCEPT ![d].st[t] = "running",
                        ![d].tries[t] = @ + 1,
                        ![d].delay[t] = 0]
    /\ UNCHANGED <<now, runs, bucket>>

MarkUpstreamFailed(d, t) ==
    /\ d \in ActiveRuns
    /\ ti[d].st[t] = "none"
    /\ \E u \in Upstream(t) : ti[d].st[u] \in {"failed", "upstream_failed"}
    /\ ti' = [ti EXCEPT ![d].st[t] = "upstream_failed"]
    /\ UNCHANGED <<now, runs, bucket>>

\* The state of a run whose task instances have all finished.
RunOutcome(tab) ==
    IF \A t \in Leaves : tab.st[t] = "success"
    THEN [state |-> "success", cause |-> "none"]
    ELSE [state |-> "failed",
          cause |-> IF tab.cause[Sensor] = "sensor_timeout"
                    THEN "sensor_timeout" ELSE "task_failed"]

FinishRun(d) ==
    /\ d \in ActiveRuns
    /\ \A t \in Tasks : ti[d].st[t] \in Finished
    /\ runs' = [runs EXCEPT ![d].state = RunOutcome(ti[d]).state,
                            ![d].cause = RunOutcome(ti[d]).cause]
    /\ UNCHANGED <<now, ti, bucket>>

(***************************************************************************)
(* clean_dataset on a frame of raw records.  A frame is the sequence of    *)
(* its rows; a cell is <<>> when missing (None/NaN), else a tuple.         *)
(***************************************************************************)
NA == <<>>
NaT == <<"NaT">>
Ids == {<<1>>, <<2>>}
Values == {<<1>>, <<2>>}
\* timestamp cells as the API sends them: a parsable string of a date and an
\* hour, or a string that is no timestamp.
RawTimestamps == {<<"str", 1, 0>>, <<"str", 1, 1>>, <<"str", 2, 0>>, <<"bad">>}

Rows == [id : Ids \cup {NA}, timestamp : RawTimestamps \cup {NA}, value : Values \cup {NA}]
Frames == UNION {[1..n -> Rows] : n \in 1..MaxRecords}

NoResult == [daily |-> <<>>, hourly |-> <<>>, raw_count |-> 0]

\* dropna on the timestamp column alone.
DropNaTimestampOnly(frame) == SelectSeq(frame, LAMBDA r : r.timestamp # NA)

\* df.dropna(subset=['id', 'timestamp'])
DropNa(frame) == SelectSeq(frame, LAMBDA r : r.id # NA /\ r.timestamp # NA)

\* pd.to_datetime(cell, errors='coerce')
ToDatetime(cell) ==
    IF cell # NA /\ cell[1] = "str" THEN <<"ts", cell[2], cell[3]>> ELSE NaT

\* df['timestamp'] = pd.to_datetime(df['timestamp'], errors='coerce')
ConvertTimestamps(frame) ==
    [i \in 1..Len(frame) |-> [frame[i] EXCEPT !.timestamp = ToDatetime(@)]]

\* df[~df['timestamp'].isna()]
DropNaT(frame) == SelectSeq(frame, LAMBDA r : r.timestamp # NaT)

RowsOf(frame) == {frame[i] : i \in 1..Len(frame)}
\* The calendar date and the (date, hour) of a row with a parsed timestamp.
DateOf(r) == r.timestamp[2]
HourKeyOf(r) == <<r.timestamp[2], r.timestamp[3]>>

RECURSIVE SumOver(_, _)
SumOver(frame, I) ==
    IF I = {} THEN 0
    ELSE LET i == CHOOSE x \in I : TRUE
         IN  frame[i].value[1] + SumOver(frame, I \ {i})

KeyLess(a, b) ==
    IF Len(a) = 1 THEN a[1] < b[1]
    ELSE a[1] < b[1] \/ (a[1] = b[1] /\ a[2] < b[2])

RECURSIVE SortedKeys(_)
\* The keys of a groupby come out sorted.
SortedKeys(S) ==
    IF S = {} THEN <<>>
    ELSE LET m == CHOOSE x \in S : \A y \in S \ {x} : KeyLess(x, y)
         IN  <<m>> \o SortedKeys(S \ {m})

\* One row of df.groupby(date).agg({'value': [..., 'sum', 'count', 'min', 'max', ...],
\* 'id': 'nunique'}); count, sum, min and max skip the missing values.
DailyRow(frame, date) ==
    LET G == {i \in 1..Len(frame) : DateOf(frame[i]) = date}
        V == {i \in G : frame[i].value # NA}
    IN  [date |-> date,
         value_sum |-> SumOver(frame, V),
         value_count |-> Cardinality(V),
         value_min |-> IF V = {} THEN NA
                       ELSE <<CHOOSE x \in {frame[i].value[1] : i \in V} :
                                 \A y \in {frame[i].value[1] : i \in V} : x <= y>>,
         value_max |-> IF V = {} THEN NA
                       ELSE <<CHOOSE x \in {frame[i].value[1] : i \in V} :
                                 \A y \in {frame[i].value[1] : i \in V} : x >= y>>,
         id_nunique |-> Cardinality({frame[i].id : i \in G})]

DailyAggregation(frame) ==
    LET dates == SortedKeys({<<DateOf(r)>> : r \in RowsOf(frame)})
    IN  [k \in 1..Len(dates) |-> DailyRow(frame, dates[k][1])]

HourlyRow(frame, key) ==
    LET G == {i \in 1..Len(frame) : HourKeyOf(frame[i]) = key}
        V == {i \in G : frame[i].value # NA}
    IN  [date |-> key[1], hour |-> key[2],
         value_sum |-> SumOver(frame, V),
         value_count |-> Cardinality(V)]

HourlyAggregation(frame) ==
    LET keys == SortedKeys({HourKeyOf(r) : r \in RowsOf(frame)})
    IN  [k \in 1..Len(keys) |-> HourlyRow(frame, keys[k])]

\* The frame object of the caller once clean_dataset has run: dropna(inplace=True)
\* and the assignment to df['timestamp'] act on the object that was passed; the
\* later `df = df[...]` rebinds the local name to a new frame.
CallerFrameAfter(frame) == ConvertTimestamps(DropNa(frame))

\* The return value of clean_dataset(frame).
clean_dataset(frame) ==
    LET cleaned == DropNaT(CallerFrameAfter(frame))
    IN  [daily |-> DailyAggregation(cleaned),
         hourly |-> HourlyAggregation(cleaned),
         raw_count |-> Len(cleaned)]

CleanCall ==
    /\ cpc = "call"
    /\ result' = clean_dataset(df)
    /\ df' = CallerFrameAfter(df)
    /\ cpc' = "done"
    /\ UNCHANGED input

InitPipeline ==
    /\ now = 0
    /\ runs = <<>>
    /\ ti = <<>>
    /\ bucket = <<>>

Init ==
    /\ InitPipeline
    /\ df = <<>>
    /\ input = <<>>
    /\ result = NoResult
    /\ cpc = "idle"

Next ==
    \/ /\ Tick
       /\ UNCHANGED cleanVars
    \/ /\ CreateRun
       /\ UNCHANGED cleanVars
    \/ /\ \E d \in DOMAIN ti, t \in Tasks : StartTask(d, t)
       /\ UNCHANGED cleanVars
    \/ /\ \E d \in DOMAIN ti, status \in HealthStatuses : SensorPoke(d, status)
       /\ UNCHANGED cleanVars
    \/ /\ \E d \in DOMAIN ti, lag \in 0..MaxLag : SensorNextPoke(d, lag)
       /\ UNCHANGED cleanVars
    \/ /\ \E d \in DOMAIN ti, t \in Tasks : TaskSucceed(d, t)
       /\ UNCHANGED cleanVars
    \/ /\ \E d \in DOMAIN ti, t \in Tasks, wrote \in BOOLEAN : TaskFail(d, t, wrote)
       /\ UNCHANGED cleanVars
    \/ /\ \E d \in DOMAIN ti, t \in Tasks : RetryTask(d, t)
       /\ UNCHANGED cleanVars
    \/ /\ \E d \in DOMAIN ti, t \in Tasks : MarkUpstreamFailed(d, t)
       /\ UNCHANGED cleanVars
    \/ /\ \E d \in DOMAIN ti : FinishRun(d)
       /\ UNCHANGED cleanVars

Spec == Init /\ [][Next]_vars

InitClean ==
    /\ InitPipeline
    /\ df \in Frames
    /\ input = df
    /\ result = NoResult
    /\ cpc = "call"

NextClean ==
    /\ CleanCall
    /\ UNCHANGED pipeVars

SpecClean == InitClean /\ [][NextClean]_vars

(***************************************************************************)
(* Properties.                                                             *)
(***************************************************************************)
Started(d, t) == ti[d].tries[t] > 0

\* The upstream tasks of the topology sensor -> extract -> transform group
\* (clean -> enrich) -> load group (uploads -> log): every task of the load
\* group comes after every task of the transform group.
ChainUpstream(t) ==
    CASE t = Sensor -> {}
      [] t = Extract -> {Sensor}
      [] t = Clean -> {Extract}
      [] t = Enrich -> {Clean}
      [] t \in Uploads -> TransformGroup
      [] t = LogMetrics -> TransformGroup \cup Uploads

RECURSIVE ChainAncestors(_)
ChainAncestors(t) ==
    ChainUpstream(t) \cup UNION {ChainAncestors(u) : u \in ChainUpstream(t)}

ChainDownstream(t) == {s \in Tasks : t \in ChainAncestors(s)}

\* C1: in every run, a task that has started an attempt has every upstream task
\* of the chain check_api_availability -> extract_data -> transform_data_group
\* -> load_to_s3_group in state success; in particular no task of the load
\* group has started unless clean_data and enrich_data have both succeeded.
C1_StartsAfterChainUpstream ==
    \A d \in DOMAIN ti : \A t \in Tasks :
        Started(d, t) => \A u \in ChainUpstream(t) : ti[d].st[u] = "success"

\* C2: at most one run is active, and every run was created for the latest
\* tick that had arrived (no run for a tick that a later tick had overtaken).
C2_AtMostOneActiveRun ==
    /\ Cardinality(ActiveRuns) <= 1
    /\ \A d \in DOMAIN runs : runs[d].tick = d

\* A tick has arrived while a run is active, and no second run was started.
C2_TickWhileRunActive ==
    \E d \in ActiveRuns : now > d /\ Cardinality(DOMAIN runs) = 1

C4_RetriesPlusOneAttempts ==
    \A d \in DOMAIN ti : \A t \in Tasks \ {Sensor} :
        LET tab == ti[d]
            k == tab.tries[t]
        IN  /\ k <= Retries(t) + 1
            /\ tab.st[t] = "failed" => k = Retries(t) + 1
            /\ tab.st[Clean] = "failed" => tab.tries[Clean] = 4
            /\ tab.st[t] = "up_for_retry" =>
                  /\ tab.delay[t] >= Min(RetryDelay(t) * Pow2(k - 1), MaxRetryDelay)
                  /\ tab.delay[t] < 2 * RetryDelay(t) * Pow2(k - 1)
                  /\ tab.delay[t] <= MaxRetryDelay

\* clean_data has failed on every one of its 4 attempts and is failed.
C4_CleanFailedOnEveryAttempt ==
    \E d \in DOMAIN ti :
        /\ ti[d].st[Clean] = "failed"
        /\ ti[d].tries[Clean] = 4
        /\ ti[d].faults = 4

\* C4 (as claimed): a task with retries=3 is failed after exactly 3 attempts and
\* never makes a 4th, and the delay after failed attempt k is
\* min(retry_delay * 2^(k-1), max_retry_delay).
C4_ThreeAttempts ==
    \A d \in DOMAIN ti : \A t \in {x \in Tasks \ {Sensor} : Retries(x) = 3} :
        LET tab == ti[d]
            k == tab.tries[t]
        IN  /\ k <= 3
            /\ tab.st[t] = "failed" => k = 3
            /\ tab.st[t] = "up_for_retry" =>
                  tab.delay[t] = Min(RetryDelay(t) * Pow2(k - 1), MaxRetryDelay)

\* C5: when a task has failed, no task downstream of it in the chain has
\* started an attempt, a finished run with a failed task is failed, and an
\* upload that succeeded has its object in the bucket.
C5_FailureStopsDownstream ==
    \A d \in DOMAIN ti :
        /\ \A t \in Tasks : ti[d].st[t] = "failed" =>
              \A s \in ChainDownstream(t) : ~Started(d, s)
        /\ (runs[d].state # "running" /\ \E t \in Tasks : ti[d].st[t] = "failed")
              => runs[d].state = "failed"
        /\ \A t \in Uploads : ti[d].st[t] = "success" => S3Path(t, d) \in DOMAIN bucket

\* C6: every object of the bucket lies under the key of the logical date of
\* the run that wrote it, and an upload that succeeded in the run of logical
\* date D has left exactly its payload under {kind}/D/{kind}_metrics.json.
C6_KeyIsLogicalDate ==
    /\ \A k \in DOMAIN bucket : k.date = Ds(bucket[k].run) /\ k.prefix = bucket[k].kind
    /\ \A d \in DOMAIN ti : \A t \in Uploads :
          ti[d].st[t] = "success" =>
              LET key == [prefix |-> Kind(t), date |-> Ds(d), name |-> MetricsFile(t)]
              IN  key \in DOMAIN bucket /\ bucket[key] = Payload(t, d)

\* C7: log_etl_metrics has started only with both uploads succeeded, and each
\* upload can start as soon as the task that produces its data has succeeded,
\* whatever the state of the other upload.
C7_UploadsIndependent ==
    \A d \in ActiveRuns :
        /\ Started(d, LogMetrics) =>
              ti[d].st[UploadDaily] = "success" /\ ti[d].st[UploadHourly] = "success"
        /\ (ti[d].st[Enrich] = "success" /\ ti[d].st[UploadDaily] = "none")
              => ENABLED StartTask(d, UploadDaily)
        /\ (ti[d].st[Clean] = "success" /\ ti[d].st[UploadHourly] = "none")
              => ENABLED StartTask(d, UploadHourly)

\* upload_daily_data waits for a retry while upload_hourly_data runs.
C7_HourlyRunsDuringDailyRetryDelay ==
    \E d \in ActiveRuns :
        /\ ti[d].st[UploadDaily] = "up_for_retry"
        /\ ti[d].st[UploadHourly] = "running"

\* C10: a sensor that waits for its next poke holds no worker slot.
C10_WaitingSensorHoldsNoSlot ==
    \A d \in DOMAIN ti :
        ti[d].waiting =>
            /\ Sensor \notin OccupiedSlots(d)
            /\ ti[d].st[Sensor] = "up_for_reschedule"

\* The sensor waits for a poke after at least one re-submission.
C10_SensorWaitsBetweenPolls ==
    \E d \in DOMAIN ti : ti[d].waiting /\ ti[d].elapsed > 0

(***************************************************************************)
(* Properties of clean_dataset.                                            *)
(***************************************************************************)
\* The rows of the frame passed in that have an id and a parsable timestamp.
KeptRows == {i \in 1..Len(input) :
                /\ input[i].id # NA
                /\ input[i].timestamp # NA
                /\ input[i].timestamp[1] = "str"}

RECURSIVE SumCounts(_)
SumCounts(rows) ==
    IF rows = <<>> THEN 0 ELSE Head(rows).value_count + SumCounts(Tail(rows))

DailyRowsOf(date) == {k \in 1..Len(result.daily) : result.daily[k].date = date}

C9_InputNotMutated == cpc = "done" => df = input
====
